---------------------------- MODULE Spec2Model ----------------------------
(***************************************************************************)
(* NYC-TLC-Trip-Data: the fragment filter and filename parser (base.py,    *)
(* extract_trips_metadata.py, extract_trips_data.py), the HEAD-then-GET    *)
(* remote info prober (base.py, ArrowHTTPFileSystem) and the parallel sync *)
(* of trip files (extract_trips_data.py).                                  *)
(*                                                                         *)
(* Python strings are modelled as sequences of one-character strings, so   *)
(* that splitting, int() and formatting are computed, not assumed.         *)
(* Python None is modelled by the integer None == -1 where the other       *)
(* values are naturals (times, sizes, months).                             *)
(***************************************************************************)
EXTENDS Integers, Sequences, FiniteSets, TLC

VARIABLES
    f_path,        \* filter: fragment.path handed to the filter
    f_tokens,      \* filter (ghost): the tokens the path was written from
    f_kwargs,      \* filter: record_type, year, months, month options
    f_call,        \* filter: which function was applied ("none" before)
    f_parsed,      \* filter: file_record_type, file_year, file_month of the call
    f_result,      \* filter: [raised, value] of the applied function
    f_results,     \* filter (ghost): per function, the result of its call
    p_resp,        \* prober: the server's response to HEAD and to GET
    p_pc,          \* prober: "head", "get", "returned" or "raised"
    info,          \* prober: the info dict of _info
    p_requests,    \* prober (ghost): the requests issued, in order
    p_file_info,   \* prober (ghost): outcome of each _file_info call made
    p_logged,      \* prober: number of exceptions sent to logger.debug
    p_return,      \* prober: the dict _info returns
    source,        \* sync: --source, "web" or "s3"
    s_kwargs,      \* sync: record_type, year, months of the invocation
    listing,       \* sync: the object paths the S3 prefix holds, in listing order
    discovery_ok,  \* sync: whether pds.dataset(...) succeeds against this remote
    remote,        \* sync: per path, what the source filesystem answers
    local,         \* sync: per file name, the file under data/trips-data
    local0,        \* sync (ghost): the local store before the first run
    now,           \* sync: the local clock, stamped on written files
    run,           \* sync: number of the current invocation of main
    run_state,     \* sync: position of main
    trip_fragments, \* sync: trip_dataset.get_fragments() as paths
    tasks,         \* sync: per fragment, the state of its extract_trip_file call
    c_kwargs,      \* sources: record_type, year, months of a web invocation
    c_pc,          \* sources: "main" before _prepare_sources, "prepared" after
    c_sources,     \* sources: the candidate URLs _prepare_sources returned
    c_allowed,     \* sources: per candidate, the outcome of extract_trip_file's filter
    z_url,         \* zones: the url handed to safe_download_file
    z_head,        \* zones: what the server answers to requests.head(url)
    z_get,         \* zones: how requests.get(url, stream=True) goes
    z_local,       \* zones: the destination file under data/zones-data
    z_local0,      \* zones (ghost): the destination file before the call
    z_destination, \* zones: the destination's file name
    z_requests,    \* zones (ghost): the requests issued, in order
    z_pc,          \* zones: "start", "download_file", "done" or "raised"
    m_source,      \* metadata: --source, "web" or "s3"
    m_kwargs,      \* metadata: record_type, year, months of the invocation
    m_listing,     \* metadata: the fragments of the discovered dataset, in order
    m_pc,          \* metadata: position of main
    m_fragments,   \* metadata: trip_fragments, the fragments the filter kept
    m_results,     \* metadata: per kept fragment, the row its task returned
    m_artifact     \* metadata: the csv file written by to_csv

filter_vars == <<f_path, f_tokens, f_kwargs, f_call, f_parsed, f_result,
                 f_results>>
prober_vars == <<p_resp, p_pc, info, p_requests, p_file_info, p_logged, p_return>>
sync_vars == <<source, s_kwargs, listing, discovery_ok, remote, local, local0,
               now, run, run_state, trip_fragments, tasks>>
sources_vars == <<c_kwargs, c_pc, c_sources, c_allowed>>
zones_vars == <<z_url, z_head, z_get, z_local, z_local0, z_destination,
                z_requests, z_pc>>
metadata_vars == <<m_source, m_kwargs, m_listing, m_pc, m_fragments,
                   m_results, m_artifact>>
other_vars == <<sources_vars, zones_vars, metadata_vars>>
vars == <<filter_vars, prober_vars, sync_vars, other_vars>>

None == 0 - 1

(***************************************************************************)
(* Strings                                                                 *)
(***************************************************************************)
Digit == {"0", "1", "2", "3", "4", "5", "6", "7", "8", "9"}

DigitVal ==
    [c \in Digit |->
        CASE c = "0" -> 0 [] c = "1" -> 1 [] c = "2" -> 2 [] c = "3" -> 3
          [] c = "4" -> 4 [] c = "5" -> 5 [] c = "6" -> 6 [] c = "7" -> 7
          [] c = "8" -> 8 [] c = "9" -> 9]

DigitChar == <<"0", "1", "2", "3", "4", "5", "6", "7", "8", "9">>

S_yellow == <<"y", "e", "l", "l", "o", "w">>
S_green == <<"g", "r", "e", "e", "n">>
S_fhv == <<"f", "h", "v">>
S_fhvhv == <<"f", "h", "v", "h", "v">>
S_tripdata == <<"t", "r", "i", "p", "d", "a", "t", "a">>
S_parquet == <<"p", "a", "r", "q", "u", "e", "t">>

\* str.split(sep) / re.split(r"[...]", s): cut at every separator character,
\* keeping empty tokens.
RECURSIVE SplitAcc(_, _, _, _)
SplitAcc(s, seps, cur, acc) ==
    IF s = <<>> THEN Append(acc, cur)
    ELSE IF Head(s) \in seps
         THEN SplitAcc(Tail(s), seps, <<>>, Append(acc, cur))
         ELSE SplitAcc(Tail(s), seps, Append(cur, Head(s)), acc)

Split(s, seps) == SplitAcc(s, seps, <<>>, <<>>)

\* str.strip() restricted to the blank character.
RECURSIVE LStrip(_)
LStrip(s) == IF s # <<>> /\ Head(s) = " " THEN LStrip(Tail(s)) ELSE s

RECURSIVE RStrip(_)
RStrip(s) ==
    IF s # <<>> /\ s[Len(s)] = " " THEN RStrip(SubSeq(s, 1, Len(s) - 1)) ELSE s

Strip(s) == RStrip(LStrip(s))

RECURSIVE DigitsVal(_, _)
DigitsVal(s, acc) ==
    IF s = <<>> THEN acc ELSE DigitsVal(Tail(s), 10 * acc + DigitVal[Head(s)])

\* int(s) of Python on a string of digits, letters, blanks, "+" and "*":
\* blanks are stripped, one leading "+" is accepted, then at least one digit
\* and only digits; anything else raises ValueError.
PyIntBody(s) ==
    LET u == Strip(s)
    IN  IF u # <<>> /\ Head(u) = "+" THEN Tail(u) ELSE u

PyIntOk(s) ==
    LET v == PyIntBody(s)
    IN  v # <<>> /\ \A i \in 1..Len(v) : v[i] \in Digit

PyInt(s) == DigitsVal(PyIntBody(s), 0)

\* str(n) for a natural number.
RECURSIVE Dec(_)
Dec(n) == IF n < 10 THEN <<DigitChar[n + 1]>>
          ELSE Append(Dec(n \div 10), DigitChar[(n % 10) + 1])

\* f"{n:02}".
Pad2(n) == IF Len(Dec(n)) < 2 THEN <<"0">> \o Dec(n) ELSE Dec(n)

SeqToSet(s) == {s[i] : i \in 1..Len(s)}

(***************************************************************************)
(* Filename parsing and the fragment filter                                *)
(***************************************************************************)
FileNameSeps == {"_", ".", "-"}

\* Position of the last "/" among the first i characters of s, 0 if none.
RECURSIVE LastSlash(_, _)
LastSlash(s, i) ==
    IF i = 0 THEN 0 ELSE IF s[i] = "/" THEN i ELSE LastSlash(s, i - 1)

\* file_name = path.split("/")[-1]: what follows the last "/"
FileName(path) == SubSeq(path, LastSlash(path, Len(path)) + 1, Len(path))

\* The parse shared by is_allowed_fragment, _filter_allowed_fragment and
\* extract_trip_file: file_parts[0], int(file_parts[2]), int(file_parts[3]).
\* file_parts[i] raises IndexError and int() raises ValueError.
ParseFileNameWrong(path) ==
    LET file_parts == Split(FileName(path), FileNameSeps)
    IN  IF Len(file_parts) < 3 \/ ~PyIntOk(file_parts[3])
        THEN [ok |-> FALSE, error |-> "ValueError",
              record_type |-> <<>>, year |-> None, month |-> None]
        ELSE [ok |-> TRUE, error |-> "none",
              record_type |-> file_parts[1],
              year |-> PyInt(file_parts[3]),
              month |-> PyInt(file_parts[3])]

ParseFileName(path) ==
    LET file_parts == Split(FileName(path), FileNameSeps)
    IN  IF Len(file_parts) < 3
        THEN [ok |-> FALSE, error |-> "IndexError",
              record_type |-> <<>>, year |-> None, month |-> None]
        ELSE IF ~PyIntOk(file_parts[3])
        THEN [ok |-> FALSE, error |-> "ValueError",
              record_type |-> <<>>, year |-> None, month |-> None]
        ELSE IF Len(file_parts) < 4
        THEN [ok |-> FALSE, error |-> "IndexError",
              record_type |-> <<>>, year |-> None, month |-> None]
        ELSE IF ~PyIntOk(file_parts[4])
        THEN [ok |-> FALSE, error |-> "ValueError",
              record_type |-> <<>>, year |-> None, month |-> None]
        ELSE [ok |-> TRUE, error |-> "none",
              record_type |-> file_parts[1],
              year |-> PyInt(file_parts[3]),
              month |-> PyInt(file_parts[4])]

Raised == [raised |-> TRUE, value |-> FALSE]
Returned(v) == [raised |-> FALSE, value |-> v]

\* kwargs.get("months") or [kwargs.get("month")] or []
\* (an empty tuple is falsy; the one-element list [None] is not)
MonthsOrMonth(kw) ==
    IF kw.months # <<>> THEN kw.months ELSE <<kw.month>>

\* base.is_allowed_fragment
is_allowed_fragment(fragment, kw) ==
    LET p == ParseFileName(fragment)
    IN  IF ~p.ok THEN Raised
        ELSE Returned(/\ p.record_type = kw.record_type
                      /\ p.year = kw.year
                      /\ p.month \in SeqToSet(MonthsOrMonth(kw)))

\* extract_trips_metadata._filter_allowed_fragment
\* kwargs.get("months") or []
FilterAllowedWrong(fragment, kw) ==
    LET p == ParseFileName(fragment)
    IN  IF ~p.ok THEN Raised
        ELSE Returned(/\ p.record_type = kw.record_type
                      /\ p.month \in SeqToSet(kw.months))

_filter_allowed_fragment(fragment, kw) ==
    LET p == ParseFileName(fragment)
    IN  IF ~p.ok THEN Raised
        ELSE Returned(/\ p.record_type = kw.record_type
                      /\ p.year = kw.year
                      /\ p.month \in SeqToSet(kw.months))

(***************************************************************************)
(* Inputs of the filter specification                                      *)
(***************************************************************************)
\* Tokens a file name is written from.  shape "full" is
\* {type}_{mid}_{year}-{month}.parquet; "no_month" drops "-{month}";
\* "no_year" drops "_{year}-{month}"; "type_only" is {type}.parquet and
\* "bare_year" is {type}_{mid}_{year}.
TypeTokens == {S_yellow, S_green}
MidTokens == {S_tripdata, <<"f", "o", "o">>}
YearTokens ==
    {[text |-> <<"2", "0", "2", "3">>, value |-> 2023],
     [text |-> <<"2", "0", "2", "4">>, value |-> 2024],
     [text |-> <<"2", "3">>, value |-> 23],
     [text |-> <<"2", "0", "x", "3">>, value |-> None]}
MonthTokens ==
    {[text |-> <<"0", "1">>, value |-> 1],
     [text |-> <<"1">>, value |-> 1],
     [text |-> <<"0", "3">>, value |-> 3],
     [text |-> <<"1", "3">>, value |-> 13],
     [text |-> <<"0">>, value |-> 0],
     [text |-> <<"a", "b">>, value |-> None]}
DirPrefixes == {<<>>, <<"t", "r", "i", "p", " ", "d", "a", "t", "a", "/">>}
Shapes == {"full", "no_month", "no_year", "type_only", "bare_year"}

TokenRecords ==
    [shape : Shapes, dir : DirPrefixes, type : TypeTokens, mid : MidTokens,
     year : YearTokens, month : MonthTokens]

\* Only the tokens a shape writes are varied.
CanonicalTokens(t) ==
    /\ t.shape \notin {"full"} => t.month.text = <<"0", "1">>
    /\ t.shape \in {"no_year", "type_only"} => t.year.value = 2023
    /\ t.shape = "type_only" => t.mid = S_tripdata

WriteFileName(t) ==
    t.dir \o t.type
      \o (IF t.shape = "type_only" THEN <<>> ELSE <<"_">> \o t.mid)
      \o (IF t.shape \in {"no_year", "type_only"} THEN <<>>
          ELSE <<"_">> \o t.year.text)
      \o (IF t.shape = "full" THEN <<"-">> \o t.month.text ELSE <<>>)
      \o (IF t.shape = "bare_year" THEN <<>> ELSE <<".">> \o S_parquet)

\* A file name of the grammar {type}_tripdata_{year}-{month}.{ext} with a
\* 4-digit year and a month in 1..12, judged on the tokens it was written from.
GrammarForm(t) ==
    /\ t.shape = "full"
    /\ t.mid = S_tripdata
    /\ t.year.value # None /\ Len(t.year.text) = 4
    /\ t.month.value \in 1..12

FilterKwargs ==
    [record_type : TypeTokens, year : {2023, 2024},
     months : {<<>>, <<1>>, <<1, 2>>, <<3>>}, month : {None, 1}]

NoResult == [raised |-> FALSE, value |-> FALSE]

\* The three implementations of the fragment filter; NotCalled marks one
\* that was not applied to the fragment yet.
FilterFunctions ==
    {"is_allowed_fragment", "_filter_allowed_fragment", "extract_trip_file"}
NotCalled == [raised |-> FALSE, value |-> FALSE, called |-> FALSE]
CalledWith(res) ==
    [raised |-> res.raised, value |-> res.value, called |-> TRUE]

FilterStart ==
    /\ f_tokens \in {t \in TokenRecords : CanonicalTokens(t)}
    /\ f_path = WriteFileName(f_tokens)
    /\ f_kwargs \in FilterKwargs
    /\ f_call = "none"
    /\ f_parsed = ParseFileName(<<>>)
    /\ f_result = NoResult
    /\ f_results = [f \in FilterFunctions |-> NotCalled]

\* One call of a filter function on the fragment and the criteria; each
\* function is applied once.
CallIsAllowedFragment ==
    /\ f_call # "idle"
    /\ ~f_results["is_allowed_fragment"].called
    /\ f_call' = "is_allowed_fragment"
    /\ f_parsed' = ParseFileName(f_path)
    /\ f_result' = is_allowed_fragment(f_path, f_kwargs)
    /\ f_results' = [f_results EXCEPT
                        !["is_allowed_fragment"] = CalledWith(f_result')]
    /\ UNCHANGED <<f_path, f_tokens, f_kwargs, prober_vars, sync_vars, other_vars>>

CallFilterAllowedFragment ==
    /\ f_call # "idle"
    /\ ~f_results["_filter_allowed_fragment"].called
    /\ f_call' = "_filter_allowed_fragment"
    /\ f_parsed' = ParseFileName(f_path)
    /\ f_result' = _filter_allowed_fragment(f_path, f_kwargs)
    /\ f_results' = [f_results EXCEPT
                        !["_filter_allowed_fragment"] = CalledWith(f_result')]
    /\ UNCHANGED <<f_path, f_tokens, f_kwargs, prober_vars, sync_vars, other_vars>>

(***************************************************************************)
(* The remote info prober: ArrowHTTPFileSystem._info and _file_info        *)
(***************************************************************************)
EmptyDict == [k \in {} |-> None]

\* dict.update / {**a, **b}: the keys of b override those of a.
Update(a, b) ==
    [k \in DOMAIN a \cup DOMAIN b |-> IF k \in DOMAIN b THEN b[k] ELSE a[k]]

\* A header the server may send: its text and, as ghost, what the text spells
\* (value None where it spells no number).
Absent == [present |-> FALSE, text |-> <<>>, value |-> None]
Header(text, value) == [present |-> TRUE, text |-> text, value |-> value]

ContentLengths == {Absent, Header(<<"1", "0", "0">>, 100)}
ContentEncodings ==
    {Absent, Header(<<"i", "d", "e", "n", "t", "i", "t", "y">>, None),
     Header(<<>>, None), Header(<<"g", "z", "i", "p">>, None)}
ContentRanges ==
    {Absent,
     Header(<<"b", "y", "t", "e", "s", " ", "0", "-", "9", "9", "/", "5", "0", "0">>, 500),
     Header(<<"b", "y", "t", "e", "s", " ", "0", "-", "9", "9", "/", "*">>, None)}
ContentTypes ==
    {Absent, Header(<<"a", "/", "b", ";", "q", "=", "1">>, None)}
ETags == {Absent, Header(<<"e", "1">>, None)}
\* Last-Modified dates are stood for by "day N"; N is the instant they denote.
LastModifieds == {Absent, Header(<<"d", "a", "y", " ", "1">>, 1)}

S_url == <<"u", "r", "l">>

\* A response: status "error" stands for a request that raises or a status
\* that r.raise_for_status() rejects.
OkResponses ==
    [status : {"ok"}, cl : ContentLengths, ce : ContentEncodings,
     cr : ContentRanges, ct : ContentTypes, etag : ETags,
     lm : LastModifieds, url : {S_url}]
ErrorResponse ==
    [status |-> "error", cl |-> Absent, ce |-> Absent, cr |-> Absent,
     ct |-> Absent, etag |-> Absent, lm |-> Absent, url |-> S_url]
Responses == OkResponses \cup {ErrorResponse}

\* r.headers
HeaderField ==
    [n \in {"Content-Length", "Content-Encoding", "Content-Range",
            "Content-Type", "ETag", "Last-Modified"} |->
        CASE n = "Content-Length" -> "cl" [] n = "Content-Encoding" -> "ce"
          [] n = "Content-Range" -> "cr" [] n = "Content-Type" -> "ct"
          [] n = "ETag" -> "etag" [] n = "Last-Modified" -> "lm"]

Headers(r) ==
    [n \in {m \in DOMAIN HeaderField : r[HeaderField[m]].present} |->
        r[HeaderField[n]].text]

\* email.utils.parsedate_to_datetime on the dates "day N".
parsedate_to_datetime(text) == PyInt(SubSeq(text, 5, Len(text)))

\* The size part of _file_info: [raised, dict].
SizeInfoWrong(h) ==
    IF "Content-Length" \in DOMAIN h
    THEN [raised |-> ~PyIntOk(h["Content-Length"]),
          dict |-> IF PyIntOk(h["Content-Length"])
                   THEN [k \in {"size"} |-> PyInt(h["Content-Length"])]
                   ELSE EmptyDict]
    ELSE IF "Content-Range" \in DOMAIN h
    THEN LET parts == Split(h["Content-Range"], {"/"})
         IN  IF Len(parts) < 2 \/ ~PyIntOk(parts[2])
             THEN [raised |-> TRUE, dict |-> EmptyDict]
             ELSE [raised |-> FALSE, dict |-> [k \in {"size"} |-> PyInt(parts[2])]]
    ELSE [raised |-> FALSE, dict |-> EmptyDict]

SizeInfo(h) ==
    IF "Content-Length" \in DOMAIN h
    THEN IF \/ "Content-Encoding" \notin DOMAIN h
            \/ h["Content-Encoding"] \in {<<"i", "d", "e", "n", "t", "i", "t", "y">>, <<>>}
         THEN [raised |-> ~PyIntOk(h["Content-Length"]),
               dict |-> IF PyIntOk(h["Content-Length"])
                        THEN [k \in {"size"} |-> PyInt(h["Content-Length"])]
                        ELSE EmptyDict]
         ELSE [raised |-> FALSE, dict |-> EmptyDict]
    ELSE IF "Content-Range" \in DOMAIN h
    THEN LET parts == Split(h["Content-Range"], {"/"})
         IN  IF Len(parts) < 2 \/ ~PyIntOk(parts[2])
             THEN [raised |-> TRUE, dict |-> EmptyDict]
             ELSE [raised |-> FALSE, dict |-> [k \in {"size"} |-> PyInt(parts[2])]]
    ELSE [raised |-> FALSE, dict |-> EmptyDict]

\* info["mimetype"] = r.headers["Content-Type"].partition(";")[0]
MimeInfo(h) ==
    IF "Content-Type" \in DOMAIN h
    THEN [k \in {"mimetype"} |-> Split(h["Content-Type"], {";"})[1]]
    ELSE EmptyDict

\* for checksum_field in ["ETag", "Content-MD5", "Digest"]: copied if truthy
ChecksumInfo(h) ==
    IF "ETag" \in DOMAIN h /\ h["ETag"] # <<>>
    THEN [k \in {"ETag"} |-> h["ETag"]]
    ELSE EmptyDict

\* mtime = r.headers.get("Last-Modified") or None; parsed when truthy
MtimeInfo(h) ==
    [k \in {"mtime"} |->
        IF "Last-Modified" \in DOMAIN h /\ h["Last-Modified"] # <<>>
        THEN parsedate_to_datetime(h["Last-Modified"])
        ELSE None]

\* ArrowHTTPFileSystem._file_info on the response r: [raised, dict]
_file_info(r) ==
    IF r.status # "ok" THEN [raised |-> TRUE, dict |-> EmptyDict]
    ELSE LET h == Headers(r)
             size == SizeInfo(h)
         IN  IF size.raised THEN [raised |-> TRUE, dict |-> EmptyDict]
             ELSE [raised |-> FALSE,
                   dict |-> Update(Update(Update(Update(size.dict, MimeInfo(h)),
                                [k \in {"url"} |-> r.url]),
                                ChecksumInfo(h)), MtimeInfo(h))]

\* info.get("size") is not None
HasSize(d) == "size" \in DOMAIN d /\ d["size"] # None

\* {"name": url, "size": None, **info, "type": "file"}
InfoReturn(d) ==
    Update(Update([k \in {"name", "size"} |->
                       IF k = "name" THEN S_url ELSE None], d),
           [k \in {"type"} |-> <<"f", "i", "l", "e">>])

NoCall == [called |-> FALSE, raised |-> FALSE, dict |-> EmptyDict]
Called(res) == [called |-> TRUE, raised |-> res.raised, dict |-> res.dict]

ProberStart ==
    /\ p_resp \in [{"head", "get"} -> Responses]
    /\ p_pc = "head"
    /\ info = EmptyDict
    /\ p_requests = <<>>
    /\ p_file_info = [policy \in {"head", "get"} |-> NoCall]
    /\ p_logged = 0
    /\ p_return = EmptyDict

\* One turn of "for policy in ['head', 'get']" that raised:
\* FileNotFoundError for "get", logger.debug and the next turn for "head".
PolicyRaisedWrong(policy) ==
    /\ p_pc' = "raised"
    /\ UNCHANGED <<info, p_logged, p_return>>

PolicyRaised(policy) ==
    /\ p_pc' = IF policy = "get" THEN "raised" ELSE "get"
    /\ p_logged' = IF policy = "get" THEN p_logged ELSE p_logged + 1
    /\ UNCHANGED <<info, p_return>>

PolicyReturnedNoBreak(policy, res) ==
    /\ info' = Update(info, res.dict)
    /\ IF policy = "get"
       THEN /\ p_pc' = "returned"
            /\ p_return' = InfoReturn(info')
       ELSE /\ p_pc' = "get"
            /\ UNCHANGED p_return
    /\ UNCHANGED p_logged

\* One turn that returned: info.update(...), break when a size is known; the
\* loop ends after "get".
PolicyReturned(policy, res) ==
    /\ info' = Update(info, res.dict)
    /\ IF HasSize(info') \/ policy = "get"
       THEN /\ p_pc' = "returned"
            /\ p_return' = InfoReturn(info')
       ELSE /\ p_pc' = "get"
            /\ UNCHANGED p_return
    /\ UNCHANGED p_logged

InfoPolicy(policy) ==
    /\ p_pc = policy
    /\ p_requests' = Append(p_requests, policy)
    /\ LET res == _file_info(p_resp[policy])
       IN  /\ p_file_info' = [p_file_info EXCEPT ![policy] = Called(res)]
           /\ IF res.raised THEN PolicyRaised(policy)
              ELSE PolicyReturned(policy, res)
    /\ UNCHANGED <<p_resp, filter_vars, sync_vars, other_vars>>

InfoHead == InfoPolicy("head")

InfoGet == InfoPolicy("get")

FilterIdle ==
    /\ f_tokens = CHOOSE t \in TokenRecords : GrammarForm(t)
    /\ f_path = <<>>
    /\ f_kwargs = CHOOSE kw \in FilterKwargs : TRUE
    /\ f_call = "idle"
    /\ f_parsed = ParseFileName(<<>>)
    /\ f_result = NoResult
    /\ f_results = [f \in FilterFunctions |-> NotCalled]

ProberIdle ==
    /\ p_resp = [policy \in {"head", "get"} |-> ErrorResponse]
    /\ p_pc = "idle"
    /\ info = EmptyDict
    /\ p_requests = <<>>
    /\ p_file_info = [policy \in {"head", "get"} |-> NoCall]
    /\ p_logged = 0
    /\ p_return = EmptyDict

(***************************************************************************)
(* The sync of trip files: extract_trips_data.main, extract_trip_file and  *)
(* download_trip_file                                                      *)
(***************************************************************************)
MaxTime == 2
MaxRuns == 2

S_base ==
    <<"h", "t", "t", "p", "s", ":", "/", "/", "d", "3", "7", "c", "i", "6",
      "v", "z", "u", "r", "y", "c", "h", "x", ".", "c", "l", "o", "u", "d",
      "f", "r", "o", "n", "t", ".", "n", "e", "t", "/", "t", "r", "i", "p",
      "-", "d", "a", "t", "a">>
S_s3_path ==
    <<"n", "y", "c", "-", "t", "l", "c", "/", "t", "r", "i", "p", " ", "d",
      "a", "t", "a", "/">>

WebPathUnpadded(record_type, year, month) ==
    S_base \o <<"/">> \o record_type \o <<"_">> \o S_tripdata \o <<"_">>
      \o Dec(year) \o <<"-">> \o Dec(month) \o <<".">> \o S_parquet

\* f"{BASE}/{record_type}_tripdata_{year}-{month:02}.parquet"
WebPath(record_type, year, month) ==
    S_base \o <<"/">> \o record_type \o <<"_">> \o S_tripdata \o <<"_">>
      \o Dec(year) \o <<"-">> \o Pad2(month) \o <<".">> \o S_parquet

\* _prepare_sources for the web: one path per entry of months, in order
_prepare_sources(record_type, year, months) ==
    [i \in 1..Len(months) |-> WebPath(record_type, year, months[i])]

\* Objects an S3 listing may hold.
S3_A == S_s3_path \o S_yellow \o <<"_">> \o S_tripdata
          \o <<"_", "2", "0", "2", "3", "-", "0", "1", ".">> \o S_parquet
S3_B == S_s3_path \o S_yellow \o <<"_">> \o S_tripdata
          \o <<"_", "2", "0", "2", "3", "-", "0", "2", ".">> \o S_parquet
S3_A_old == S_s3_path \o <<"o", "l", "d", "/">> \o S_yellow \o <<"_">> \o S_tripdata
          \o <<"_", "2", "0", "2", "3", "-", "0", "1", ".">> \o S_parquet
S3_G == S_s3_path \o S_green \o <<"_">> \o S_tripdata
          \o <<"_", "2", "0", "2", "3", "-", "0", "1", ".">> \o S_parquet
S3_readme == S_s3_path \o <<"r", "e", "a", "d", "m", "e", ".", "t", "x", "t">>

S3Listings ==
    {<<S3_A, S3_B>>, <<S3_A, S3_A_old>>, <<S3_G, S3_A>>,
     <<S3_A, S3_readme>>, <<S3_readme, S3_A>>}

WebMonths == {<<1>>, <<1, 2>>, <<1, 1>>}

DownloadFragmentAnyYear(path, kw) ==
    LET p == ParseFileName(path)
    IN  IF ~p.ok THEN Raised
        ELSE Returned(/\ p.record_type = kw.record_type
                      /\ p.month \in SeqToSet(kw.months))

\* download_fragment of extract_trip_file: [raised, value]
download_fragment(path, kw) ==
    LET p == ParseFileName(path)
    IN  IF ~p.ok THEN Raised
        ELSE Returned(/\ p.record_type = kw.record_type
                      /\ p.year = kw.year
                      /\ p.month \in SeqToSet(kw.months))

\* destination = DATASETS_TRIPS_DATA_PATH / Path(fragment.path).name
Destination(path) == FileName(path)

\* destination_need_update of download_trip_file
NeedUpdateOnEqual(local_modification_time, s3_modification_time) ==
    /\ local_modification_time # None
    /\ s3_modification_time # None
    /\ local_modification_time <= s3_modification_time

NeedUpdateOnUnknown(local_modification_time, s3_modification_time) ==
    \/ local_modification_time = None
    \/ s3_modification_time = None
    \/ local_modification_time < s3_modification_time

destination_need_update(local_modification_time, s3_modification_time) ==
    /\ local_modification_time # None
    /\ s3_modification_time # None
    /\ local_modification_time < s3_modification_time

\* What the source filesystem answers for a path: "ok", "unreachable"
\* (get_file_info raises) or "broken" (the copy fails mid-flight); mtime
\* is the modification time it reports, None when it reports none.
RemoteStates ==
    {[status |-> "unreachable", mtime |-> None]}
      \cup [status : {"ok", "broken"}, mtime : {None} \cup 1..MaxTime]
RemoteDefault == [status |-> "ok", mtime |-> None]

\* A local file: absent, or present with the mtime the filesystem reports;
\* partial marks a file whose copy did not complete.
NoFile == [exists |-> FALSE, mtime |-> None, partial |-> FALSE]
File(mtime) == [exists |-> TRUE, mtime |-> mtime, partial |-> FALSE]
PartialFile(mtime) == [exists |-> TRUE, mtime |-> mtime, partial |-> TRUE]
LocalStates == {NoFile} \cup {File(t) : t \in {None} \cup 1..MaxTime}

Selected(path, kw) == download_fragment(path, kw).value

NewTask ==
    [pc |-> "pending", outcome |-> "none", destination_exists |-> FALSE,
     local_modification_time |-> None, s3_modification_time |-> None]

\* The paths the run will enumerate.
Fragments ==
    IF source = "web"
    THEN _prepare_sources(s_kwargs.record_type, s_kwargs.year, s_kwargs.months)
    ELSE listing

SyncStart ==
    /\ source \in {"web", "s3"}
    /\ s_kwargs \in [record_type : {S_yellow}, year : {2023},
                     months : IF source = "web" THEN WebMonths ELSE {<<1, 2>>}]
    /\ listing \in IF source = "web" THEN {<<>>} ELSE S3Listings
    /\ discovery_ok \in BOOLEAN
    /\ remote \in [SeqToSet(Fragments) -> RemoteStates]
    /\ local \in [{Destination(p) : p \in SeqToSet(Fragments)} -> LocalStates]
    /\ \A p \in SeqToSet(Fragments) :
          (~Selected(p, s_kwargs) \/ ~discovery_ok) =>
              /\ remote[p] = RemoteDefault
              /\ local[Destination(p)] = NoFile
    /\ local0 = local
    /\ now = MaxTime + 1
    /\ run = 1
    /\ run_state = "discover"
    /\ trip_fragments = <<>>
    /\ tasks = <<>>

env_vars == <<source, s_kwargs, listing, discovery_ok, remote, local0>>

DiscoverIgnoringError ==
    /\ run_state = "discover"
    /\ trip_fragments' = Fragments
    /\ tasks' = [i \in 1..Len(Fragments) |-> NewTask]
    /\ run_state' = "running"
    /\ UNCHANGED <<env_vars, local, now, run, filter_vars, prober_vars, other_vars>>

\* main, lines 232-243: pds.dataset(...).get_fragments(); an error of the
\* enumeration propagates out of main.
Discover ==
    /\ run_state = "discover"
    /\ IF discovery_ok
       THEN /\ trip_fragments' = Fragments
            /\ tasks' = [i \in 1..Len(Fragments) |-> NewTask]
            /\ run_state' = "running"
       ELSE /\ run_state' = "aborted"
            /\ UNCHANGED <<trip_fragments, tasks>>
    /\ UNCHANGED <<env_vars, local, now, run, filter_vars, prober_vars, other_vars>>

\* An exception leaves extract_trip_file: the task ends and joblib's
\* Parallel stops dispatching.
TaskRaises(i) ==
    /\ tasks' = [tasks EXCEPT ![i].pc = "failed"]
    /\ run_state' = "failing"

\* Parallel(n_jobs=-1), lines 245-257: the fragments are handed to the
\* workers in order, the next one possibly before an earlier one has ended;
\* nothing more is handed out once a task has raised.
TaskDispatch(i) ==
    /\ run_state = "running"
    /\ i \in 1..Len(tasks)
    /\ tasks[i].pc = "pending"
    /\ \A j \in 1..(i - 1) : tasks[j].pc # "pending"
    /\ tasks' = [tasks EXCEPT ![i].pc = "dispatched"]
    /\ UNCHANGED <<env_vars, local, now, run, run_state, trip_fragments,
                   filter_vars, prober_vars, other_vars>>

\* extract_trip_file in a worker parses the file name and evaluates
\* download_fragment (lines 155-170).
TaskStart(i) ==
    /\ run_state \in {"running", "failing"}
    /\ i \in 1..Len(tasks)
    /\ tasks[i].pc = "dispatched"
    /\ LET d == download_fragment(trip_fragments[i], s_kwargs)
       IN  IF d.raised THEN TaskRaises(i)
           ELSE /\ tasks' = [tasks EXCEPT
                       ![i].pc = IF d.value THEN "get_file_info" ELSE "done",
                       ![i].outcome = IF d.value THEN "none" ELSE "not_selected"]
                /\ UNCHANGED run_state
    /\ UNCHANGED <<env_vars, local, now, run, trip_fragments,
                   filter_vars, prober_vars, other_vars>>

Running(i) ==
    /\ run_state \in {"running", "failing"}
    /\ i \in 1..Len(tasks)

\* fragment.filesystem.get_file_info(fragment.path), line 171
TaskFileInfo(i) ==
    /\ Running(i)
    /\ tasks[i].pc = "get_file_info"
    /\ IF remote[trip_fragments[i]].status = "unreachable"
       THEN TaskRaises(i)
       ELSE /\ tasks' = [tasks EXCEPT
                   ![i].pc = "download_trip_file",
                   ![i].s3_modification_time = remote[trip_fragments[i]].mtime]
            /\ UNCHANGED run_state
    /\ UNCHANGED <<env_vars, local, now, run, trip_fragments,
                   filter_vars, prober_vars, other_vars>>

\* download_trip_file, lines 112-137 and 147-148: the decision
TaskDecide(i) ==
    /\ Running(i)
    /\ tasks[i].pc = "download_trip_file"
    /\ LET destination == Destination(trip_fragments[i])
           destination_exists == local[destination].exists
           local_modification_time ==
               IF destination_exists THEN local[destination].mtime ELSE None
           need_update ==
               destination_need_update(local_modification_time,
                                       tasks[i].s3_modification_time)
       IN  tasks' = [tasks EXCEPT
               ![i].destination_exists = destination_exists,
               ![i].local_modification_time = local_modification_time,
               ![i].pc = IF ~destination_exists \/ need_update
                         THEN "copy_files" ELSE "done",
               ![i].outcome = IF ~destination_exists THEN "create"
                              ELSE IF need_update THEN "update" ELSE "skip"]
    /\ UNCHANGED <<env_vars, local, now, run, run_state, trip_fragments,
                   filter_vars, prober_vars, other_vars>>

\* pfs.copy_files, lines 138-145: the destination is opened for writing ...
TaskCopyOpen(i) ==
    /\ Running(i)
    /\ tasks[i].pc = "copy_files"
    /\ local' = [local EXCEPT ![Destination(trip_fragments[i])] = PartialFile(now)]
    /\ tasks' = [tasks EXCEPT ![i].pc = "copying"]
    /\ UNCHANGED <<env_vars, now, run, run_state, trip_fragments,
                   filter_vars, prober_vars, other_vars>>

\* ... and the chunks are written to the end, or the transfer fails mid-flight
TaskCopyFinish(i) ==
    /\ Running(i)
    /\ tasks[i].pc = "copying"
    /\ IF remote[trip_fragments[i]].status = "broken"
       THEN /\ TaskRaises(i)
            /\ UNCHANGED local
       ELSE /\ local' = [local EXCEPT ![Destination(trip_fragments[i])] = File(now)]
            /\ tasks' = [tasks EXCEPT ![i].pc = "done"]
            /\ UNCHANGED run_state
    /\ UNCHANGED <<env_vars, now, run, trip_fragments, filter_vars, prober_vars, other_vars>>

Terminal(t) == t.pc \in {"done", "failed", "cancelled"}

\* Parallel re-raises the task's exception in main (lines 246-256): the
\* fragments not yet dispatched are dropped and the workers are stopped, so
\* a task still under way does not complete.
Abort ==
    /\ run_state = "failing"
    /\ tasks' = [i \in 1..Len(tasks) |->
                    IF Terminal(tasks[i]) THEN tasks[i]
                    ELSE [tasks[i] EXCEPT !.pc = "cancelled"]]
    /\ run_state' = "aborted"
    /\ UNCHANGED <<env_vars, local, now, run, trip_fragments,
                   filter_vars, prober_vars, other_vars>>

\* main, lines 257-259
RunFinish ==
    /\ run_state = "running"
    /\ \A i \in 1..Len(tasks) : tasks[i].pc = "done"
    /\ run_state' = "finished"
    /\ UNCHANGED <<env_vars, local, now, run, trip_fragments, tasks,
                   filter_vars, prober_vars, other_vars>>

\* The tool is invoked again, later, against the same remote and local root.
NextRun ==
    /\ run_state \in {"finished", "aborted"}
    /\ run < MaxRuns
    /\ run' = run + 1
    /\ now' = now + 1
    /\ run_state' = "discover"
    /\ trip_fragments' = <<>>
    /\ tasks' = <<>>
    /\ UNCHANGED <<env_vars, local, filter_vars, prober_vars, other_vars>>

(***************************************************************************)
(* The candidate URLs of the web source: _prepare_sources followed by the  *)
(* filter of extract_trip_file on each candidate                           *)
(***************************************************************************)
RecordTypes == {S_fhv, S_fhvhv, S_green, S_yellow}
RecordYears == {2009, 2023, 2024, 2026}
RecordMonths == 1..12

\* --months is a multiple option of months 1..12 with default
\* [min(RECORD_MONTHS)]: main receives a non-empty tuple, (1,) when the
\* option is not given.
SourceMonths ==
    {<<1, 2>>, <<10, 11, 12>>, <<3, 3>>} \cup {<<m>> : m \in RecordMonths}

NotFiltered ==
    [called |-> FALSE, raised |-> FALSE, value |-> FALSE,
     parsed |-> ParseFileName(<<>>)]

SourcesStart ==
    /\ c_kwargs \in [record_type : RecordTypes, year : RecordYears,
                     months : SourceMonths]
    /\ c_pc = "main"
    /\ c_sources = <<>>
    /\ c_allowed = <<>>

\* main, lines 233-235: sources = _prepare_sources(source="web", ...)
PrepareSources ==
    /\ c_pc = "main"
    /\ c_sources' = _prepare_sources(c_kwargs.record_type, c_kwargs.year,
                                     c_kwargs.months)
    /\ c_allowed' = [i \in 1..Len(c_sources') |-> NotFiltered]
    /\ c_pc' = "prepared"
    /\ UNCHANGED <<c_kwargs, filter_vars, prober_vars, sync_vars, zones_vars,
                   metadata_vars>>

\* extract_trip_file, lines 155-170, on one candidate under the criteria
\* the candidates were built from.
FilterSource ==
    /\ c_pc = "prepared"
    /\ \E i \in 1..Len(c_sources) :
          /\ ~c_allowed[i].called
          /\ LET res == download_fragment(c_sources[i], c_kwargs)
             IN  c_allowed' =
                   [c_allowed EXCEPT
                      ![i] = [called |-> TRUE, raised |-> res.raised,
                              value |-> res.value,
                              parsed |-> ParseFileName(c_sources[i])]]
    /\ UNCHANGED <<c_kwargs, c_pc, c_sources, filter_vars, prober_vars,
                   sync_vars, zones_vars, metadata_vars>>

SourcesIdle ==
    /\ c_kwargs = [record_type |-> S_yellow, year |-> 2023, months |-> <<>>]
    /\ c_pc = "idle"
    /\ c_sources = <<>>
    /\ c_allowed = <<>>

(***************************************************************************)
(* extract_zones_data.py: safe_download_file and download_file             *)
(***************************************************************************)
S_zones_base ==
    <<"h", "t", "t", "p", "s", ":", "/", "/", "d", "3", "7", "c", "i", "6",
      "v", "z", "u", "r", "y", "c", "h", "x", ".", "c", "l", "o", "u", "d",
      "f", "r", "o", "n", "t", ".", "n", "e", "t", "/", "m", "i", "s", "c">>
S_zone_lookup_url ==
    S_zones_base \o <<"/", "t", "a", "x", "i", "+", "_", "z", "o", "n", "e",
                      "_", "l", "o", "o", "k", "u", "p", ".", "c", "s", "v">>
S_zones_url ==
    S_zones_base \o <<"/", "t", "a", "x", "i", "_", "z", "o", "n", "e", "s",
                      ".", "z", "i", "p">>

\* datetime.strptime(text, "%a, %d %b %Y %H:%M:%S %Z") on the dates "day N":
\* [ok, value]; a text of another format raises ValueError.
strptime(text) ==
    IF /\ Len(text) > 4
       /\ SubSeq(text, 1, 4) = <<"d", "a", "y", " ">>
       /\ \A i \in 5..Len(text) : text[i] \in Digit
    THEN [ok |-> TRUE, value |-> DigitsVal(SubSeq(text, 5, Len(text)), 0)]
    ELSE [ok |-> FALSE, value |-> None]

\* The Last-Modified header of the HEAD response: absent, not a date, or
\* a date.
ZoneLastModifieds ==
    {Absent, Header(<<"s", "o", "o", "n">>, None)}
      \cup {Header(<<"d", "a", "y", " ">> \o Dec(t), t) : t \in 1..(MaxTime + 1)}

\* requests.head(url): raises (no connection), or a response.
HeadResponses ==
    {[raises |-> TRUE, status_code |-> 0, lm |-> Absent]}
      \cup [raises : {FALSE}, status_code : {200, 304, 404},
            lm : ZoneLastModifieds]

\* requests.get(url, stream=True): "unreachable" raises in get,
\* "http_error" in raise_for_status, "broken" in iter_content after the
\* destination was opened for writing, "ok" streams the whole body.
GetOutcomes == {"ok", "unreachable", "http_error", "broken"}

ZonesStart ==
    /\ z_url \in {S_zone_lookup_url, S_zones_url}
    /\ z_head \in HeadResponses
    /\ z_get \in GetOutcomes
    /\ z_local \in {NoFile} \cup {File(t) : t \in 1..MaxTime}
    /\ z_local0 = z_local
    /\ z_destination = <<>>
    /\ z_requests = <<>>
    /\ z_pc = "start"

ZoneNeedUpdateOnEqual(server_last_modified_time, local_last_modified_time) ==
    server_last_modified_time >= local_last_modified_time

\* line 71: server_last_modified_time > local_last_modified_time
zone_need_update(server_last_modified_time, local_last_modified_time) ==
    server_last_modified_time > local_last_modified_time

\* safe_download_file, lines 47-74, up to the call of download_file.
SafeDownloadFile ==
    /\ z_pc = "start"
    /\ z_destination' = FileName(z_url)
    /\ IF ~z_local.exists
       THEN /\ z_pc' = "download_file"
            /\ UNCHANGED z_requests
       ELSE /\ z_requests' = Append(z_requests, "head")
            /\ LET local_last_modified_time == z_local.mtime
                   parsed == strptime(z_head.lm.text)
               IN  IF z_head.raises
                   THEN z_pc' = "raised"
                   ELSE IF z_head.status_code = 200
                           /\ (~z_head.lm.present \/ ~parsed.ok)
                   THEN z_pc' = "raised"
                   ELSE LET server_last_modified_time ==
                                IF z_head.status_code = 200
                                THEN parsed.value
                                ELSE local_last_modified_time
                        IN  IF zone_need_update(server_last_modified_time,
                                                local_last_modified_time)
                            THEN z_pc' = "download_file"
                            ELSE z_pc' = "done"
    /\ UNCHANGED <<z_url, z_head, z_get, z_local, z_local0, filter_vars,
                   prober_vars, sync_vars, sources_vars, metadata_vars>>

\* download_file, lines 32-44; a written file carries the time of the
\* write, which is later than every time seen so far.
DownloadFile ==
    /\ z_pc = "download_file"
    /\ z_requests' = Append(z_requests, "get")
    /\ CASE z_get = "ok" ->
              /\ z_local' = File(MaxTime + 2)
              /\ z_pc' = "done"
         [] z_get = "broken" ->
              /\ z_local' = PartialFile(MaxTime + 2)
              /\ z_pc' = "raised"
         [] z_get \in {"unreachable", "http_error"} ->
              /\ UNCHANGED z_local
              /\ z_pc' = "raised"
    /\ UNCHANGED <<z_url, z_head, z_get, z_local0, z_destination, filter_vars,
                   prober_vars, sync_vars, sources_vars, metadata_vars>>

ZonesIdle ==
    /\ z_url = <<>>
    /\ z_head = [raises |-> TRUE, status_code |-> 0, lm |-> Absent]
    /\ z_get = "unreachable"
    /\ z_local = NoFile
    /\ z_local0 = NoFile
    /\ z_destination = <<>>
    /\ z_requests = <<>>
    /\ z_pc = "idle"

(***************************************************************************)
(* extract_trips_metadata.py: main and extract_trip_file_metadata          *)
(***************************************************************************)
\* A fragment of the discovered dataset: its path, what get_file_info
\* reports for it (size None when the prober found none) and, as ghosts,
\* the type, year and month its name was written from (None for a file
\* that is not a trip file).
Fragment(path, size, record_type, year, month) ==
    [path |-> path, size |-> size, mtime |-> 1,
     record_type |-> record_type, year |-> year, month |-> month]

S_web_readme ==
    S_base \o <<"/", "r", "e", "a", "d", "m", "e", ".", "t", "x", "t">>

\* The listings: two fragments each.
MetaListings(src) ==
    LET A(z) == Fragment(IF src = "web" THEN WebPath(S_yellow, 2023, 1)
                         ELSE S3_A, z, S_yellow, 2023, 1)
        B(z) == Fragment(IF src = "web" THEN WebPath(S_yellow, 2023, 2)
                         ELSE S3_B, z, S_yellow, 2023, 2)
        G(z) == Fragment(IF src = "web" THEN WebPath(S_green, 2023, 1)
                         ELSE S3_G, z, S_green, 2023, 1)
        R(z) == Fragment(IF src = "web" THEN S_web_readme ELSE S3_readme,
                         z, <<>>, None, None)
        Sizes == IF src = "web" THEN {None, 100} ELSE {100}
    IN  UNION {{<<A(y), B(z)>>, <<B(y), A(z)>>, <<G(y), A(z)>>,
                <<A(y), R(z)>>} : y \in Sizes, z \in Sizes}

MetaKwargs ==
    [record_type : {S_yellow}, year : {2023},
     months : {<<1>>, <<2>>, <<1, 2>>, <<2, 1>>}]

NoRow == [done |-> FALSE]

NoArtifact == [written |-> FALSE, rows |-> <<>>]

MetadataStart ==
    /\ m_source \in {"web", "s3"}
    /\ m_kwargs \in MetaKwargs
    /\ m_listing \in MetaListings(m_source)
    /\ m_pc = "main"
    /\ m_fragments = <<>>
    /\ m_results = <<>>
    /\ m_artifact = NoArtifact

\* main, lines 261-275: the discovered fragments are filtered in order; an
\* exception of _filter_allowed_fragment propagates out of main.
DiscoverMetadata ==
    /\ m_pc = "main"
    /\ IF \E i \in 1..Len(m_listing) :
             _filter_allowed_fragment(m_listing[i].path, m_kwargs).raised
       THEN /\ m_pc' = "raised"
            /\ UNCHANGED <<m_fragments, m_results>>
       ELSE LET allowed(fragment) ==
                    _filter_allowed_fragment(fragment.path, m_kwargs).value
            IN  /\ m_fragments' = SelectSeq(m_listing, allowed)
                /\ m_results' = [i \in 1..Len(m_fragments') |-> NoRow]
                /\ m_pc' = "extract"
    /\ UNCHANGED <<m_source, m_kwargs, m_listing, m_artifact, filter_vars,
                   prober_vars, sync_vars, sources_vars, zones_vars>>

\* extract_trip_file_metadata: [raised, row]; int(fragment_info.size)
\* raises TypeError when the size is None.
extract_trip_file_metadata(fragment) ==
    LET p == ParseFileName(fragment.path)
    IN  IF ~p.ok \/ fragment.size = None
        THEN [raised |-> TRUE, row |-> NoRow]
        ELSE [raised |-> FALSE,
              row |-> [done |-> TRUE,
                       file_name |-> FileName(fragment.path),
                       file_record_type |-> p.record_type,
                       file_year |-> p.year,
                       file_month |-> p.month,
                       file_modification_time |-> fragment.mtime,
                       file_size_bytes |-> fragment.size]]

\* One task of Parallel, lines 279-289: with n_jobs = 1 (web) the tasks run
\* in order, otherwise in any order; the rows are kept in the order of
\* trip_fragments; an exception of a task propagates out of main.
ExtractTripFileMetadata ==
    /\ m_pc = "extract"
    /\ \E i \in 1..Len(m_fragments) :
          /\ ~m_results[i].done
          /\ m_source = "web" => \A j \in 1..(i - 1) : m_results[j].done
          /\ LET res == extract_trip_file_metadata(m_fragments[i])
             IN  IF res.raised
                 THEN /\ m_pc' = "raised"
                      /\ UNCHANGED m_results
                 ELSE /\ m_results' = [m_results EXCEPT ![i] = res.row]
                      /\ UNCHANGED m_pc
    /\ UNCHANGED <<m_source, m_kwargs, m_listing, m_fragments, m_artifact,
                   filter_vars, prober_vars, sync_vars, sources_vars,
                   zones_vars>>

\* main, lines 290-299: pd.DataFrame(metadata) and to_csv.
SaveMetadata ==
    /\ m_pc = "extract"
    /\ \A i \in 1..Len(m_fragments) : m_results[i].done
    /\ m_artifact' = [written |-> TRUE, rows |-> m_results]
    /\ m_pc' = "done"
    /\ UNCHANGED <<m_source, m_kwargs, m_listing, m_fragments, m_results,
                   filter_vars, prober_vars, sync_vars, sources_vars,
                   zones_vars>>

MetadataIdle ==
    /\ m_source = "s3"
    /\ m_kwargs = [record_type |-> S_yellow, year |-> 2023, months |-> <<>>]
    /\ m_listing = <<>>
    /\ m_pc = "idle"
    /\ m_fragments = <<>>
    /\ m_results = <<>>
    /\ m_artifact = NoArtifact

OtherIdle == SourcesIdle /\ ZonesIdle /\ MetadataIdle

SyncIdle ==
    /\ source = "s3"
    /\ s_kwargs = [record_type |-> S_yellow, year |-> 2023, months |-> <<1>>]
    /\ listing = <<>>
    /\ discovery_ok = FALSE
    /\ remote = EmptyDict
    /\ local = EmptyDict
    /\ local0 = EmptyDict
    /\ now = 0
    /\ run = 0
    /\ run_state = "idle"
    /\ trip_fragments = <<>>
    /\ tasks = <<>>

SyncInit == SyncStart /\ FilterIdle /\ ProberIdle /\ OtherIdle

DispatchTask == \E i \in 1..Len(tasks) : TaskDispatch(i)

StartTask == \E i \in 1..Len(tasks) : TaskStart(i)

GetFileInfo == \E i \in 1..Len(tasks) : TaskFileInfo(i)

Decide == \E i \in 1..Len(tasks) : TaskDecide(i)

CopyOpen == \E i \in 1..Len(tasks) : TaskCopyOpen(i)

CopyFinish == \E i \in 1..Len(tasks) : TaskCopyFinish(i)

SyncNext ==
    \/ Discover
    \/ DispatchTask
    \/ StartTask
    \/ GetFileInfo
    \/ Decide
    \/ CopyOpen
    \/ CopyFinish
    \/ Abort
    \/ RunFinish
    \/ NextRun

SpecSync == SyncInit /\ [][SyncNext]_vars

FilterInit == FilterStart /\ ProberIdle /\ SyncIdle /\ OtherIdle

ProberInit == ProberStart /\ FilterIdle /\ SyncIdle /\ OtherIdle

ProberNext == InfoHead \/ InfoGet

SpecProber == ProberInit /\ [][ProberNext]_vars

\* The inline filter of extract_trip_file applied to the fragment.
CallExtractTripFile ==
    /\ f_call # "idle"
    /\ ~f_results["extract_trip_file"].called
    /\ f_call' = "extract_trip_file"
    /\ f_parsed' = ParseFileName(f_path)
    /\ f_result' = download_fragment(f_path, f_kwargs)
    /\ f_results' = [f_results EXCEPT
                        !["extract_trip_file"] = CalledWith(f_result')]
    /\ UNCHANGED <<f_path, f_tokens, f_kwargs, prober_vars, sync_vars, other_vars>>

SourcesInit ==
    /\ SourcesStart
    /\ FilterIdle /\ ProberIdle /\ SyncIdle /\ ZonesIdle /\ MetadataIdle

ZonesInit ==
    /\ ZonesStart
    /\ FilterIdle /\ ProberIdle /\ SyncIdle /\ SourcesIdle /\ MetadataIdle

MetadataInit ==
    /\ MetadataStart
    /\ FilterIdle /\ ProberIdle /\ SyncIdle /\ SourcesIdle /\ ZonesIdle

MetadataNext == DiscoverMetadata \/ ExtractTripFileMetadata \/ SaveMetadata

SpecMetadata == MetadataInit /\ [][MetadataNext]_vars

ZonesNext == SafeDownloadFile \/ DownloadFile

SpecZones == ZonesInit /\ [][ZonesNext]_vars

SourcesNext == PrepareSources \/ FilterSource

SpecSources == SourcesInit /\ [][SourcesNext]_vars

FilterNext ==
    \/ CallIsAllowedFragment
    \/ CallFilterAllowedFragment
    \/ CallExtractTripFile

SpecFilter == FilterInit /\ [][FilterNext]_vars

(***************************************************************************)
(* Claims on the filter and the filename parser                            *)
(***************************************************************************)
\* C7: for a fragment of the filename grammar and criteria (record_type, year,
\* months), the filter returns true exactly when the fragment's type equals
\* record_type, its year equals year and its month is one of months; an empty
\* months matches nothing.
C7_FilterMatchRule ==
    (/\ f_call \in {"is_allowed_fragment", "_filter_allowed_fragment"}
     /\ (f_call = "is_allowed_fragment" => f_kwargs.month = None)
     /\ GrammarForm(f_tokens))
    => /\ ~f_result.raised
       /\ f_result.value <=>
            (/\ f_tokens.type = f_kwargs.record_type
             /\ f_tokens.year.value = f_kwargs.year
             /\ \E i \in 1..Len(f_kwargs.months) :
                    f_kwargs.months[i] = f_tokens.month.value)

C7_Witness ==
    /\ f_call = "_filter_allowed_fragment"
    /\ f_path = S_yellow \o <<"_">> \o S_tripdata
                  \o <<"_", "2", "0", "2", "3", "-", "0", "1", ".">> \o S_parquet
    /\ f_kwargs.record_type = S_yellow
    /\ f_kwargs.year = 2023
    /\ f_kwargs.months = <<1, 2>>
    /\ f_result = Returned(TRUE)

\* C8 (as claimed): a file name of the grammar parses back to its type, year
\* and month, and every file name not of the grammar fails to parse.
C8_Original ==
    f_call # "none" =>
        IF GrammarForm(f_tokens)
        THEN /\ f_parsed.ok
             /\ f_parsed.record_type = f_tokens.type
             /\ f_parsed.year = f_tokens.year.value
             /\ f_parsed.month = f_tokens.month.value
        ELSE ~f_parsed.ok

\* C8 (amended): a file name of the grammar parses back to its type, year and
\* month; parsing fails exactly when the name has fewer than four tokens or
\* its third or fourth token is not an integer literal.  The middle token,
\* the number of digits of the year and the range of the month are not
\* checked: such names parse to the values their tokens spell.
C8_ParseRoundTrip ==
    f_call # "none" =>
        /\ f_parsed.ok <=>
              (/\ f_tokens.shape = "full"
               /\ f_tokens.year.value # None
               /\ f_tokens.month.value # None)
        /\ f_parsed.ok =>
              /\ f_parsed.record_type = f_tokens.type
              /\ f_parsed.year = f_tokens.year.value
              /\ f_parsed.month = f_tokens.month.value

C8_Witness ==
    /\ f_call # "none"
    /\ GrammarForm(f_tokens)
    /\ f_tokens.month.text = <<"0", "3">>
    /\ f_parsed.ok
    /\ f_parsed.month = 3

(***************************************************************************)
(* Claims on the prober                                                    *)
(***************************************************************************)
ProberDone == p_pc \in {"returned", "raised"}

\* C5: _info raises FileNotFoundError exactly when the GET phase was attempted
\* and raised; an error of the HEAD phase is logged and followed by the GET
\* phase, never propagated; in every other case _info returns a record.
C5_NotFoundOnlyAfterGet ==
    /\ p_pc = "raised" <=>
         (p_file_info["get"].called /\ p_file_info["get"].raised)
    /\ (p_file_info["head"].called /\ p_file_info["head"].raised) =>
         /\ p_logged = 1
         /\ p_requests # <<>> /\ p_requests[1] = "head"
         /\ p_pc = "get" \/ p_file_info["get"].called
    /\ (ProberDone /\ ~(p_file_info["get"].called /\ p_file_info["get"].raised)) =>
         /\ p_pc = "returned"
         /\ {"name", "size", "type"} \subseteq DOMAIN p_return

C5_Witness ==
    /\ p_pc = "raised"
    /\ p_requests = <<"head", "get">>
    /\ p_resp["head"].status = "error"
    /\ p_resp["get"].status = "error"

\* The size step (1) of the policy applies to the response r.
LengthTrusted(r) ==
    /\ r.cl.present
    /\ ~r.ce.present \/ r.ce.text \in {<<"i", "d", "e", "n", "t", "i", "t", "y">>, <<>>}

\* C6 (as claimed): on a successful response, size = Content-Length when it
\* is present and the encoding is absent, identity or empty; otherwise size =
\* TOTAL when a Content-Range declares a total; otherwise size is omitted.
C6_Original ==
    \A policy \in {"head", "get"} :
        LET r == p_resp[policy]
            res == p_file_info[policy]
        IN  (res.called /\ r.status = "ok") =>
              IF LengthTrusted(r)
              THEN ~res.raised /\ HasSize(res.dict) /\ res.dict["size"] = r.cl.value
              ELSE IF r.cr.present /\ r.cr.value # None
              THEN ~res.raised /\ HasSize(res.dict) /\ res.dict["size"] = r.cr.value
              ELSE ~res.raised /\ ~HasSize(res.dict)

\* C6 (amended): size = Content-Length when it is present and the encoding is
\* absent, identity or empty; when Content-Length is present with any other
\* encoding, size is omitted whatever Content-Range says; when Content-Length
\* is absent and Content-Range is present, size = TOTAL if the text after "/"
\* is an integer and _file_info raises if it is not ("*"); with neither header
\* size is omitted.
C6_SizePolicy ==
    \A policy \in {"head", "get"} :
        LET r == p_resp[policy]
            res == p_file_info[policy]
        IN  (res.called /\ r.status = "ok") =>
              IF LengthTrusted(r)
              THEN ~res.raised /\ HasSize(res.dict) /\ res.dict["size"] = r.cl.value
              ELSE IF r.cl.present
              THEN ~res.raised /\ ~HasSize(res.dict)
              ELSE IF r.cr.present /\ r.cr.value # None
              THEN ~res.raised /\ HasSize(res.dict) /\ res.dict["size"] = r.cr.value
              ELSE IF r.cr.present
              THEN res.raised
              ELSE ~res.raised /\ ~HasSize(res.dict)

C6_Witness ==
    /\ p_file_info["head"].called
    /\ p_resp["head"].status = "ok"
    /\ p_resp["head"].cl.present
    /\ p_resp["head"].ce.text = <<"g", "z", "i", "p">>
    /\ p_resp["head"].cr.value = 500
    /\ ~p_file_info["head"].raised
    /\ ~HasSize(p_file_info["head"].dict)

(***************************************************************************)
(* Claims on the sync                                                      *)
(***************************************************************************)
Decided(t) == t.outcome \in {"create", "update", "skip"}

CopyCalled(t) == t.outcome \in {"create", "update"}

\* C1: for a fragment that passes the filter, the copy is performed as a
\* create when the destination does not exist, as an update when it exists,
\* both modification times are present and the remote one is strictly
\* greater, and is not performed (skip) in every other case.
C1_Decision ==
    \A i \in 1..Len(tasks) :
        LET t == tasks[i]
        IN  Decided(t) =>
              /\ t.outcome = "create" <=> ~t.destination_exists
              /\ t.outcome = "update" <=>
                    (/\ t.destination_exists
                     /\ t.local_modification_time # None
                     /\ t.s3_modification_time # None
                     /\ t.s3_modification_time > t.local_modification_time)
              /\ t.pc \in {"copy_files", "copying"} => CopyCalled(t)
              /\ t.outcome = "skip" => t.pc = "done"

C1_Witness ==
    \E i \in 1..Len(tasks) :
        /\ tasks[i].outcome = "update"
        /\ tasks[i].local_modification_time = 1
        /\ tasks[i].s3_modification_time = 2
        /\ tasks[i].pc = "done"
        /\ local[Destination(trip_fragments[i])] = File(now)

\* C2 (as claimed): whenever the remote or the local modification time is
\* unavailable, the outcome is skip and nothing is transferred.
C2_Original ==
    \A i \in 1..Len(tasks) :
        LET t == tasks[i]
        IN  (/\ Decided(t)
             /\ \/ t.s3_modification_time = None
                \/ t.local_modification_time = None)
            => t.outcome = "skip"

\* C2 (amended): for a fragment whose destination exists, whenever the remote
\* or the local modification time is unavailable, the outcome is skip and
\* nothing is transferred.
C2_UnknownFreshnessSkips ==
    \A i \in 1..Len(tasks) :
        LET t == tasks[i]
        IN  (/\ Decided(t)
             /\ t.destination_exists
             /\ \/ t.s3_modification_time = None
                \/ t.local_modification_time = None)
            => t.outcome = "skip" /\ t.pc = "done"

C2_Witness ==
    \E i \in 1..Len(tasks) :
        /\ tasks[i].outcome = "skip"
        /\ tasks[i].destination_exists
        /\ tasks[i].local_modification_time = 1
        /\ tasks[i].s3_modification_time = None
        /\ local[Destination(trip_fragments[i])] = File(1)

\* C3: in a second run over the same fragments, with the remote unchanged and
\* the local root untouched in between, no copy is performed, whatever the
\* outcomes of the first run were.
C3_Idempotent ==
    run >= 2 => \A i \in 1..Len(tasks) : ~CopyCalled(tasks[i])

\* C4: the failure of one fragment's task is recorded for that fragment
\* only: the run does not abort and no other task is dropped.
C4_FailureIsolation ==
    (\E i \in 1..Len(tasks) : tasks[i].pc = "failed") =>
        /\ run_state \in {"running", "finished"}
        /\ \A j \in 1..Len(tasks) : tasks[j].pc # "cancelled"

\* C9: no two tasks of a run are copying to the same destination at the
\* same time.
C9_DistinctDestinations ==
    \A i, j \in 1..Len(tasks) :
        (/\ i # j
         /\ tasks[i].pc \in {"copy_files", "copying"}
         /\ tasks[j].pc \in {"copy_files", "copying"})
        => Destination(trip_fragments[i]) # Destination(trip_fragments[j])

\* The local store after the fragments from the i-th on are handled one at a
\* time, in listing order.
RECURSIVE OneByOne(_, _)
OneByOne(i, store) ==
    IF i > Len(Fragments) THEN store
    ELSE LET path == Fragments[i]
             d == download_fragment(path, s_kwargs)
             file == store[Destination(path)]
         IN  IF d.raised THEN store
             ELSE IF ~d.value THEN OneByOne(i + 1, store)
             ELSE IF remote[path].status = "unreachable" THEN store
             ELSE IF file.exists /\ ~destination_need_update(file.mtime, remote[path].mtime)
             THEN OneByOne(i + 1, store)
             ELSE IF remote[path].status = "broken"
             THEN [store EXCEPT ![Destination(path)] = PartialFile(now)]
             ELSE OneByOne(i + 1, [store EXCEPT ![Destination(path)] = File(now)])

\* C10: the local store a run ends with is the same for every interleaving
\* and completion order of the tasks, hence the one of the one-at-a-time run.
C10_Commutative ==
    (run = 1 /\ run_state \in {"finished", "aborted"} /\ discovery_ok)
    => local = OneByOne(1, local0)

(***************************************************************************)
(* Further claims on the sync                                              *)
(***************************************************************************)
\* C11: a failure of the discovery stops the run before any transfer: no
\* task exists and no copy reaches the local store unless the discovery of
\* that run succeeded.
C11_NoTransferWithoutDiscovery ==
    /\ ~discovery_ok => tasks = <<>> /\ trip_fragments = <<>> /\ local = local0
    /\ run_state \in {"discover"} => tasks = <<>>
    /\ \A i \in 1..Len(tasks) :
          tasks[i].pc # "pending" =>
             /\ discovery_ok
             /\ run_state \in {"running", "failing", "finished", "aborted"}
             /\ trip_fragments = Fragments

C11_Witness ==
    /\ ~discovery_ok
    /\ run_state = "aborted"
    /\ run = 1
    /\ tasks = <<>>
    /\ local = local0

\* C16: a destination left partial by a transfer that failed in one run is
\* copied again by the following run; it is never classified as up to date.
C16_PartialRepaired ==
    \A i \in 1..Len(tasks) :
        (/\ run >= 2
         /\ local0[Destination(trip_fragments[i])] = NoFile
         /\ tasks[i].outcome = "skip"
         /\ \A j \in 1..Len(tasks) : tasks[j].pc # "copying")
        => ~local[Destination(trip_fragments[i])].partial

(***************************************************************************)
(* Further claims on the prober                                            *)
(***************************************************************************)
\* C14: one call of _info issues at most two requests, HEAD then GET, none
\* twice; GET is issued exactly when the HEAD phase raised or returned
\* without a size, and never when the HEAD phase produced a size.
C14_RequestOrder ==
    /\ p_requests \in {<<>>, <<"head">>, <<"head", "get">>}
    /\ ProberDone =>
         (p_requests = <<"head", "get">> <=>
            \/ p_resp["head"].status = "error"
            \/ p_file_info["head"].raised
            \/ ~HasSize(p_file_info["head"].dict))
    /\ (p_file_info["head"].called /\ HasSize(p_file_info["head"].dict)) =>
         /\ p_requests = <<"head">>
         /\ p_pc = "returned"

C14_Witness ==
    /\ p_pc = "returned"
    /\ p_requests = <<"head", "get">>
    /\ p_resp["head"].status = "ok"
    /\ ~p_file_info["head"].raised
    /\ ~HasSize(p_file_info["head"].dict)
    /\ HasSize(p_return)

\* The value the response r supplies for a field of the info record
\* (None when it supplies none), on the headers it was written from.
Supplied(r, field) ==
    CASE field = "mtime" -> r.lm.value
      [] field = "mimetype" -> IF r.ct.present THEN 1 ELSE None
      [] field = "ETag" -> IF r.etag.present THEN 1 ELSE None

\* C18: when _info falls through to a successful GET phase after a
\* successful HEAD phase, a field the HEAD response supplied (modification
\* time, MIME type, checksum hint) keeps the HEAD value unless the GET
\* response supplies a value for it.
C18_HeadMetadataKept ==
    (/\ p_pc = "returned"
     /\ p_requests = <<"head", "get">>
     /\ ~p_file_info["head"].raised)
    => \A field \in {"mtime", "mimetype", "ETag"} :
          (/\ Supplied(p_resp["head"], field) # None
           /\ Supplied(p_resp["get"], field) = None)
          => /\ field \in DOMAIN p_return
             /\ p_return[field] = p_file_info["head"].dict[field]

(***************************************************************************)
(* Further claims on the filter                                            *)
(***************************************************************************)
AllCalled == \A f \in FilterFunctions : f_results[f].called

\* C17 (as claimed): base.is_allowed_fragment, _filter_allowed_fragment and
\* the inline filter of extract_trip_file return the same result for every
\* fragment path and every criteria, with or without a 'month' option.
C17_Original ==
    AllCalled =>
        \A f, g \in FilterFunctions : f_results[f] = f_results[g]

\* C17 (amended): _filter_allowed_fragment and the inline filter always
\* agree, and the three fail on the same paths; is_allowed_fragment agrees
\* with them whenever months is non-empty or no 'month' option is given.
\* With empty months and a 'month' option it matches on that month, where
\* the other two match nothing.
C17_FilterEquivalence ==
    AllCalled =>
        /\ f_results["_filter_allowed_fragment"] = f_results["extract_trip_file"]
        /\ f_results["is_allowed_fragment"].raised
             = f_results["extract_trip_file"].raised
        /\ (f_kwargs.months # <<>> \/ f_kwargs.month = None)
             => f_results["is_allowed_fragment"] = f_results["extract_trip_file"]
        /\ (f_kwargs.months = <<>> /\ ~f_results["extract_trip_file"].raised)
             => /\ ~f_results["extract_trip_file"].value
                /\ f_results["is_allowed_fragment"].value <=>
                     (/\ f_kwargs.month # None
                      /\ f_parsed.record_type = f_kwargs.record_type
                      /\ f_parsed.year = f_kwargs.year
                      /\ f_parsed.month = f_kwargs.month)

C17_Witness ==
    /\ AllCalled
    /\ GrammarForm(f_tokens)
    /\ f_tokens.month.value = 1
    /\ f_kwargs.months = <<1, 2>>
    /\ f_kwargs.month = 1
    /\ \A f \in FilterFunctions : f_results[f] = CalledWith(Returned(TRUE))

(***************************************************************************)
(* Claims on the candidate URLs                                            *)
(***************************************************************************)
\* The text of a year and of a two-digit month, written out.
YearText(year) ==
    CASE year = 2009 -> <<"2", "0", "0", "9">>
      [] year = 2023 -> <<"2", "0", "2", "3">>
      [] year = 2024 -> <<"2", "0", "2", "4">>
      [] year = 2026 -> <<"2", "0", "2", "6">>

MonthText ==
    << <<"0", "1">>, <<"0", "2">>, <<"0", "3">>, <<"0", "4">>, <<"0", "5">>,
       <<"0", "6">>, <<"0", "7">>, <<"0", "8">>, <<"0", "9">>, <<"1", "0">>,
       <<"1", "1">>, <<"1", "2">> >>

UrlForm(record_type, year, month) ==
    S_base \o <<"/">> \o record_type
      \o <<"_", "t", "r", "i", "p", "d", "a", "t", "a", "_">>
      \o YearText(year) \o <<"-">> \o MonthText[month]
      \o <<".", "p", "a", "r", "q", "u", "e", "t">>

\* C15: every candidate URL _prepare_sources builds for the web from
\* (record_type, year, month) has the form
\* {base}/{recordType}_tripdata_{year}-{month:02}.parquet, parses back to the
\* same (record_type, year, month) and passes the fragment filter under the
\* criteria it was built from.
C15_SourcesRoundTrip ==
    c_pc = "prepared" =>
        /\ Len(c_sources) = Len(c_kwargs.months)
        /\ \A i \in 1..Len(c_sources) :
              /\ c_sources[i] = UrlForm(c_kwargs.record_type, c_kwargs.year,
                                        c_kwargs.months[i])
              /\ c_allowed[i].called =>
                    /\ ~c_allowed[i].raised
                    /\ c_allowed[i].parsed.ok
                    /\ c_allowed[i].parsed.record_type = c_kwargs.record_type
                    /\ c_allowed[i].parsed.year = c_kwargs.year
                    /\ c_allowed[i].parsed.month = c_kwargs.months[i]
                    /\ c_allowed[i].value

C15_Witness ==
    /\ c_pc = "prepared"
    /\ c_kwargs = [record_type |-> S_fhvhv, year |-> 2009, months |-> <<1, 2>>]
    /\ Len(c_sources) = 2
    /\ \A i \in 1..2 : c_allowed[i].called /\ c_allowed[i].value
    /\ c_allowed[2].parsed.month = 2

(***************************************************************************)
(* Claims on the zones download                                            *)
(***************************************************************************)
ZonesDone == z_pc \in {"done", "raised"}

Downloaded == \E i \in 1..Len(z_requests) : z_requests[i] = "get"

\* C12: safe_download_file downloads when the destination is missing; when
\* it exists it downloads exactly when the HEAD request returns status 200
\* with a Last-Modified strictly later than the local modification time;
\* when HEAD returns any other status the existing file is left untouched.
C12_DownloadDecision ==
    ZonesDone =>
        /\ ~z_local0.exists => Downloaded
        /\ z_local0.exists =>
              (Downloaded <=>
                 /\ ~z_head.raises
                 /\ z_head.status_code = 200
                 /\ z_head.lm.value # None
                 /\ z_head.lm.value > z_local0.mtime)
        /\ (z_local0.exists /\ (z_head.raises \/ z_head.status_code # 200))
              => z_local = z_local0
        /\ ~Downloaded => z_local = z_local0
        /\ Len(z_requests) <= 2

C12_Witness ==
    /\ z_pc = "done"
    /\ z_local0 = File(1)
    /\ z_head.status_code = 200
    /\ z_head.lm.value = 2
    /\ z_requests = <<"head", "get">>
    /\ z_local.exists
    /\ ~z_local.partial
    /\ z_local.mtime > z_local0.mtime
    /\ z_destination = <<"t", "a", "x", "i", "_", "z", "o", "n", "e", "s",
                         ".", "z", "i", "p">>

(***************************************************************************)
(* Claims on the metadata artifact                                         *)
(***************************************************************************)
\* The fragments the criteria select, by what their names were written
\* from, in discovery order.
SelectedFragments ==
    LET selected(fragment) ==
            /\ fragment.record_type = m_kwargs.record_type
            /\ fragment.year = m_kwargs.year
            /\ \E i \in 1..Len(m_kwargs.months) :
                   m_kwargs.months[i] = fragment.month
    IN  SelectSeq(m_listing, selected)

AllTripFiles == \A i \in 1..Len(m_listing) : m_listing[i].year # None

\* C13: over a listing of trip files, the run ends with the artifact
\* written, holding one row per selected fragment and no other, in discovery
\* order, also when a selected fragment's probed size is None.
C13_OneRowPerSelected ==
    (m_pc \in {"done", "raised"} /\ AllTripFiles) =>
        /\ m_artifact.written
        /\ Len(m_artifact.rows) = Len(SelectedFragments)
        /\ \A i \in 1..Len(m_artifact.rows) :
              /\ m_artifact.rows[i].file_name
                   = FileName(SelectedFragments[i].path)
              /\ m_artifact.rows[i].file_month = SelectedFragments[i].month

=============================================================================
